---------------------------- MODULE Spec2Model ----------------------------
(***************************************************************************)
(* A model of gcp-flowlogs-reader: the Reader (construction, filter        *)
(* building, per-project paginated iteration with rate-limit retry), the   *)
(* FlowRecord normalizer and aggregated_records.                           *)
(*                                                                         *)
(* Python values are represented as follows.                               *)
(*   - None is the empty tuple <<>> where the other values are records or  *)
(*     tuples, the empty string where they are strings (only used where    *)
(*     the code tests truthiness), and NoToken for a page token.           *)
(*   - A dict is a function whose DOMAIN is its set of keys.               *)
(*   - A datetime is [sec, usec]: seconds since midnight of the one day    *)
(*     the model covers, and microseconds.                                 *)
(*   - Strings are strings: the filter expression is built character for   *)
(*     character.                                                          *)
(***************************************************************************)
EXTENDS Integers, Sequences, FiniteSets, TLC

VARIABLES
    args,             \* the arguments given to Reader(...)
    env,              \* the collaborators: project listing, clock, log store
    pc,               \* where the Reader and its generator chain stand
    project_list,     \* Reader.project_list
    log_list,         \* Reader.log_list
    start_time,       \* Reader.start_time
    end_time,         \* Reader.end_time
    filters,          \* Reader.filters
    bytes_processed,  \* Reader.bytes_processed
    gen_filters,      \* _reader: the local list `filters`
    project,          \* _reader: position of the for loop in project_list
    page_token,       \* page_helper: kwargs['page_token']
    iterator,         \* page_helper: the iterator list_entries returned
    page,             \* page_helper: entries of the current page not yet yielded
    yielded,          \* the FlowRecords handed to the consumer, in order
    result,           \* what the last next(reader) gave the consumer
    err,              \* the exception that reached the caller, if any
    drawn,            \* the raw entries _reader received from page_helper
    served,           \* per project, the entries page_helper yielded
    skipped,          \* the projects whose source ended in Forbidden/NotFound
    lastCall,         \* the arguments of the latest list_entries call
    lastOutcome,      \* how the latest call of the log store ended
    calls,            \* the number of list_entries calls
    sleeps,           \* the number of sleep(wait_time) calls
    fails,            \* the number of TooManyRequests failures raised
    all_records,      \* aggregated_records: the input not yet consumed
    consumed,         \* aggregated_records: the input consumed, in order
    key_fields,       \* aggregated_records: the key field names
    flow_table,       \* aggregated_records: key tuple -> _FlowStats
    key_order,        \* aggregated_records: the keys of flow_table, in insertion order
    rows,             \* aggregated_records: the StatRecords yielded
    agg_pc            \* aggregated_records: where the generator stands

readerVars == <<args, env, pc, project_list, log_list, start_time, end_time,
                filters, bytes_processed, gen_filters, project, page_token,
                iterator, page, yielded, result, err, drawn, served, skipped,
                lastCall, lastOutcome, calls, sleeps, fails>>
aggVars == <<all_records, consumed, key_fields, flow_table, key_order, rows, agg_pc>>
vars == <<readerVars, aggVars>>

-----------------------------------------------------------------------------
(* Bounds of the model. *)

MaxPages == 2

MaxPageLen == 2

MaxFails == 2

MaxInt == 60

MaxRecords == 3

-----------------------------------------------------------------------------
(* Python values. *)

None == <<>>

NoToken == 0

RECURSIVE Join(_, _)
\* sep.join(strs)
Join(sep, strs) ==
    IF Len(strs) = 0 THEN ""
    ELSE IF Len(strs) = 1 THEN strs[1]
    ELSE strs[1] \o sep \o Join(sep, Tail(strs))

RECURSIVE Flatten(_)
\* the concatenation of a sequence of sequences
Flatten(seqs) ==
    IF Len(seqs) = 0 THEN <<>> ELSE Head(seqs) \o Flatten(Tail(seqs))

IntDomain == 0..MaxInt

Numerals == {ToString(n) : n \in IntDomain}

IntOfText == [s \in Numerals |-> CHOOSE n \in IntDomain : ToString(n) = s]

\* int(v) succeeds
IsInt(v) == v \in Numerals

\* int(v)
int(v) == IntOfText[v]

ValidIPs == {"198.51.100.75", "192.0.2.2", "192.0.2.3", "2001:db8::1"}

\* ip_address(v) succeeds
IsIP(v) == v \in ValidIPs

\* ip_address(v)
ip_address(v) == [version |-> IF v = "2001:db8::1" THEN 6 ELSE 4, addr |-> v]

-----------------------------------------------------------------------------
(* datetime, timedelta and the two timestamp formats. *)

Day == "2018-04-03"

SecondsPerMinute == 60

SecondsPerHour == 3600

Pad2(n) == IF n < 10 THEN "0" \o ToString(n) ELSE ToString(n)

\* dt.strftime('%Y-%m-%dT%H:%M:%S')
Strftime19(dt) ==
    Day \o "T" \o Pad2(dt.sec \div SecondsPerHour)
        \o ":" \o Pad2((dt.sec % SecondsPerHour) \div SecondsPerMinute)
        \o ":" \o Pad2(dt.sec % SecondsPerMinute)

\* Reader._format_dt
_format_dt(dt) == Strftime19(dt) \o "Z"

\* dt + timedelta(seconds=s)
PlusSeconds(dt, s) == [sec |-> dt.sec + s, usec |-> dt.usec]


ClockBase == 13 * SecondsPerHour + 47 * SecondsPerMinute

\* the times of day a payload timestamp of the model can name
ParseSeconds == ClockBase..(ClockBase + MaxInt)

TextsOfTime == {Strftime19([sec |-> s, usec |-> 0]) : s \in ParseSeconds}

TimeOfText ==
    [t \in TextsOfTime |->
        CHOOSE s \in ParseSeconds : Strftime19([sec |-> s, usec |-> 0]) = t]

\* value[:19]
Prefix19(value) == SubSeq(value, 1, IF Len(value) < 19 THEN Len(value) ELSE 19)

\* FlowRecord._get_dt succeeds
IsDt(value) == Prefix19(value) \in TextsOfTime

\* FlowRecord._get_dt
_get_dt(value) == [sec |-> TimeOfText[Prefix19(value)], usec |-> 0]

-----------------------------------------------------------------------------
(* The Record Normalizer: FlowRecord.__init__. *)

InstanceDetails == {"project_id", "vm_name", "region", "zone"}

VpcDetails == {"project_id", "vpc_name", "subnetwork_name"}

GeographicDetails == {"continent", "country", "region", "city"}

ResourceLabels == {"project_id", "location", "subnetwork_id", "subnetwork_name"}

\* d.get(k): the default is left out, and int(None) raises
GetWithoutDefault(d, k, default) == IF k \in DOMAIN d THEN d[k] ELSE ""

\* d.get(k, default)
Get(d, k, default) == IF k \in DOMAIN d THEN d[k] ELSE default

\* safe_tuple_from_dict raises KeyError or TypeError: a field of cls is not a
\* key of attrs (a value that is no mapping has no string keys at all)
SafeTupleFails(cls, attrs) == ~(cls \subseteq DOMAIN attrs)

\* safe_tuple_from_dict
safe_tuple_from_dict(cls, attrs) == [k \in cls |-> attrs[k]]

\* the sub-fields are read with attrs.get(k): a missing one is filled in as
\* nothing, and the descriptor is made all the same
DescriptorLenient(flow_payload, attr, cls) ==
    IF attr \notin DOMAIN flow_payload THEN None
    ELSE [k \in cls |-> IF k \in DOMAIN flow_payload[attr]
                         THEN flow_payload[attr][k] ELSE ""]

\* the try/except/else of the descriptor loop, for one attribute
Descriptor(flow_payload, attr, cls) ==
    IF attr \notin DOMAIN flow_payload THEN None
    ELSE IF SafeTupleFails(cls, flow_payload[attr]) THEN None
    ELSE safe_tuple_from_dict(cls, flow_payload[attr])

\* the labels are read like a payload descriptor: unknown labels are left out
ResourceLabelsLenient(entry) ==
    IF entry.resource = None THEN None
    ELSE IF "labels" \notin DOMAIN entry.resource THEN None
    ELSE IF ~(ResourceLabels \subseteq DOMAIN entry.resource.labels) THEN None
    ELSE [k \in ResourceLabels |-> entry.resource.labels[k]]

\* ResourceLabels(**entry.resource.labels) inside its try/except
ResourceLabelsOf(entry) ==
    IF entry.resource = None THEN None
    ELSE IF "labels" \notin DOMAIN entry.resource THEN None
    ELSE IF DOMAIN entry.resource.labels # ResourceLabels THEN None
    ELSE entry.resource.labels

\* entry.payload or entry.log_name: an empty or absent payload gives the
\* log name, a string, and indexing it with 'connection' raises TypeError
PayloadIsMapping(entry) == entry.payload # None

\* The exception FlowRecord(entry) raises, "" when it raises none.  The
\* checks follow the order of the statements of __init__.
FlowRecordError(entry) ==
    IF ~PayloadIsMapping(entry) THEN "TypeError"
    ELSE LET p == entry.payload IN
    IF "connection" \notin DOMAIN p THEN "KeyError"
    ELSE LET c == p.connection IN
    IF "src_ip" \notin DOMAIN c THEN "KeyError"
    ELSE IF ~IsIP(c.src_ip) THEN "ValueError"
    ELSE IF ~IsInt(Get(c, "src_port", "0")) THEN "ValueError"
    ELSE IF "dest_ip" \notin DOMAIN c THEN "KeyError"
    ELSE IF ~IsIP(c.dest_ip) THEN "ValueError"
    ELSE IF ~IsInt(Get(c, "dest_port", "0")) THEN "ValueError"
    ELSE IF "protocol" \notin DOMAIN c THEN "KeyError"
    ELSE IF ~IsInt(c.protocol) THEN "ValueError"
    ELSE IF "end_time" \notin DOMAIN p THEN "KeyError"
    ELSE IF ~IsDt(p.end_time) THEN "ValueError"
    ELSE IF ~IsDt(Get(p, "start_time", p.end_time)) THEN "ValueError"
    ELSE IF "bytes_sent" \notin DOMAIN p THEN "KeyError"
    ELSE IF ~IsInt(p.bytes_sent) THEN "ValueError"
    ELSE IF "packets_sent" \notin DOMAIN p THEN "KeyError"
    ELSE IF ~IsInt(p.packets_sent) THEN "ValueError"
    ELSE IF "rtt_msec" \in DOMAIN p /\ ~IsInt(p.rtt_msec) THEN "ValueError"
    ELSE IF "reporter" \notin DOMAIN p THEN "KeyError"
    ELSE ""

\* FlowRecord(entry), for an entry on which it raises nothing.  An absent
\* rtt_msec is -1 here (the field is an integer or None in the code).
FlowRecord(entry) ==
    LET p == entry.payload
        c == p.connection
    IN  [src_ip |-> ip_address(c.src_ip),
         src_port |-> int(Get(c, "src_port", "0")),
         dest_ip |-> ip_address(c.dest_ip),
         dest_port |-> int(Get(c, "dest_port", "0")),
         protocol |-> int(c.protocol),
         start_time |-> _get_dt(Get(p, "start_time", p.end_time)),
         end_time |-> _get_dt(p.end_time),
         bytes_sent |-> int(p.bytes_sent),
         packets_sent |-> int(p.packets_sent),
         rtt_msec |-> IF "rtt_msec" \in DOMAIN p THEN int(p.rtt_msec) ELSE -1,
         reporter |-> p.reporter,
         src_instance |-> Descriptor(p, "src_instance", InstanceDetails),
         dest_instance |-> Descriptor(p, "dest_instance", InstanceDetails),
         src_vpc |-> Descriptor(p, "src_vpc", VpcDetails),
         dest_vpc |-> Descriptor(p, "dest_vpc", VpcDetails),
         src_location |-> Descriptor(p, "src_location", GeographicDetails),
         dest_location |-> Descriptor(p, "dest_location", GeographicDetails),
         resource_labels |-> ResourceLabelsOf(entry)]

\* FlowRecord.__slots__: the annotated fields, in their order
__slots__ ==
    <<"src_ip", "src_port", "dest_ip", "dest_port", "protocol", "start_time",
      "end_time", "bytes_sent", "packets_sent", "rtt_msec", "reporter",
      "src_instance", "dest_instance", "src_vpc", "dest_vpc", "src_location",
      "dest_location", "resource_labels">>

\* getattr(other, x) raises AttributeError for some x of __slots__
LacksSlots(other) == \E i \in DOMAIN __slots__ : __slots__[i] \notin DOMAIN other

\* only the connection fields are compared
EqOnConnection(self, other) ==
    IF LacksSlots(other) THEN FALSE
    ELSE \A i \in 1..5 : self[__slots__[i]] = other[__slots__[i]]

\* FlowRecord.__eq__
__eq__(self, other) ==
    IF LacksSlots(other) THEN FALSE
    ELSE \A i \in DOMAIN __slots__ : self[__slots__[i]] = other[__slots__[i]]

\* FlowRecord.__hash__: the tuple that is hashed.  hash() is a function of
\* it, so two records have the same hash whenever their tuples are equal.
__hash__(self) == [i \in DOMAIN __slots__ |-> self[__slots__[i]]]

\* flow_entry.__sizeof__(): the size of the entry object itself, which for
\* a StructEntry (a named tuple) does not depend on the payload
EntrySize == 144

\* the bytes are counted for the entries that normalize only
SizeOfWellFormed(entry) == IF FlowRecordError(entry) = "" THEN EntrySize ELSE 0

SizeOf(entry) == EntrySize

-----------------------------------------------------------------------------
(* The collaborators: the logging client, the project listing, the store.  *)

\* logging_client.project
DefaultProject == "yoyodyne-102010"

Discovered == <<"proj1", "proj2", "proj3">>

AllProjects == {DefaultProject} \cup {Discovered[i] : i \in DOMAIN Discovered}

\* what a call of the log store (list_entries, or the fetch of a page) can do
Outcomes == {"ok", "TooManyRequests", "Forbidden", "NotFound", "Other"}

\* a raw entry of project p (a StructEntry); `bad` leaves out a required field
Entry(p, serial, bad) ==
    LET full == [src_ip |-> "198.51.100.75", src_port |-> "44",
                 dest_ip |-> "192.0.2.2", dest_port |-> "33",
                 protocol |-> "6"]
        connection == IF bad THEN [k \in DOMAIN full \ {"protocol"} |-> full[k]]
                      ELSE full
    IN  [payload |->
            [connection |-> connection,
             bytes_sent |-> ToString(serial),
             packets_sent |-> "4",
             start_time |-> "2018-04-03T13:47:37.301723960Z",
             end_time |-> "2018-04-03T13:47:38.401Z",
             reporter |-> "DEST",
             src_instance |-> [project_id |-> p, vm_name |-> "vm-instance-01",
                               region |-> "us-west1", zone |-> "us-west1-a"]],
         log_name |-> "",
         resource |-> None]

\* the pages of project p in the log store: page k holds shape[k] entries,
\* numbered through; the entry numbered bad, if any, is malformed
Pages(p, shape, bad) ==
    [k \in DOMAIN shape |->
        [j \in 1..shape[k] |->
            Entry(p, (k - 1) * MaxPageLen + j, bad = (k - 1) * MaxPageLen + j)]]

\* the lists of page lengths of one project: at least one page (a listing
\* that finds nothing is one empty page), pages possibly empty
Shapes == UNION {[1..n -> 0..MaxPageLen] : n \in 1..MaxPages}

SomeTime == [sec |-> 9 * SecondsPerHour + 51 * SecondsPerMinute + 22, usec |-> 0]

LaterTime == [sec |-> 10 * SecondsPerHour + 51 * SecondsPerMinute + 33, usec |-> 0]

-----------------------------------------------------------------------------
(* Reader.__init__ *)

\* BASE_LOG_NAME.format(p)
BASE_LOG_NAME(p) == "projects/" \o p \o "/logs/compute.googleapis.com%2Fvpc_flows"

\* _get_project_list without its try/except: every failure gets out
GetProjectListRaisesAlways(listing) == listing.kind # "ok"

\* Reader._get_project_list raises: the failure is no GoogleAPIError
GetProjectListRaises(listing) == listing.kind \notin {"ok", "GoogleAPIError"}

\* Reader._get_project_list
_get_project_list(listing) ==
    IF listing.kind = "ok" THEN listing.projects ELSE <<DefaultProject>>

\* the log list follows the projects even when a log name is given
LogListAlwaysDerived(log_name, projects) ==
    [i \in DOMAIN projects |-> BASE_LOG_NAME(projects[i])]

\* self.log_list: `if log_name:` takes None and the empty string alike, both
\* being "" here
LogList(log_name, projects) ==
    IF log_name # "" THEN <<log_name>>
    ELSE [i \in DOMAIN projects |-> BASE_LOG_NAME(projects[i])]

\* timedelta(hours=1), in seconds
OneHour == SecondsPerHour

\* the constructor runs the generator up to its first listing call
ConstructEager ==
    /\ pc = "new"
    /\ IF args.collect_multiple_projects /\ GetProjectListRaises(env.listing)
       THEN /\ pc' = "init_raised"
            /\ err' = env.listing.kind
            /\ UNCHANGED <<project_list, log_list, start_time, end_time,
                           filters, bytes_processed>>
       ELSE LET pl == IF args.collect_multiple_projects
                      THEN _get_project_list(env.listing)
                      ELSE <<DefaultProject>>
                et == IF args.end_time # None THEN args.end_time ELSE env.now
            IN  /\ project_list' = pl
                /\ log_list' = LogList(args.log_name, pl)
                /\ end_time' = et
                /\ start_time' = IF args.start_time # None THEN args.start_time
                                 ELSE PlusSeconds(et, -OneHour)
                /\ filters' = args.filters
                /\ bytes_processed' = 0
                /\ pc' = "list"
                /\ err' = err
    /\ UNCHANGED <<args, env, gen_filters, project, page_token, iterator, page,
                   yielded, result, drawn, served, skipped, lastCall,
                   lastOutcome, calls, sleeps, fails>>
    /\ UNCHANGED aggVars

\* the default of the page_size argument
PAGE_SIZE == 1000

Construct ==
    /\ pc = "new"
    /\ IF args.collect_multiple_projects /\ GetProjectListRaises(env.listing)
       THEN /\ pc' = "init_raised"
            /\ err' = env.listing.kind
            /\ UNCHANGED <<project_list, log_list, start_time, end_time,
                           filters, bytes_processed>>
       ELSE LET pl == IF args.collect_multiple_projects
                      THEN _get_project_list(env.listing)
                      ELSE <<DefaultProject>>
                et == IF args.end_time # None THEN args.end_time ELSE env.now
            IN  /\ project_list' = pl
                /\ log_list' = LogList(args.log_name, pl)
                /\ end_time' = et
                /\ start_time' = IF args.start_time # None THEN args.start_time
                                 ELSE PlusSeconds(et, -OneHour)
                /\ filters' = args.filters
                /\ bytes_processed' = 0
                /\ pc' = "ready"
                /\ err' = err
    /\ UNCHANGED <<args, env, gen_filters, project, page_token, iterator, page,
                   yielded, result, drawn, served, skipped, lastCall,
                   lastOutcome, calls, sleeps, fails>>
    /\ UNCHANGED aggVars

-----------------------------------------------------------------------------
(* Reader._reader: the filter list, then the loop over the projects, with  *)
(* page_helper inlined at its one call.                                    *)

\* timedelta(hours=1) where a minute is meant
PaddingOfAnHour == SecondsPerHour

\* timedelta(minutes=1), in seconds
padding == SecondsPerMinute

\* the user filters are appended to the list instead of leading it
ReaderFiltersUserLast(user_filters, logs, t0, t1) ==
    LET log_filters == [i \in DOMAIN logs |-> "logName=\"" \o logs[i] \o "\""]
    IN  << "resource.type=\"gce_subnetwork\"",
           "(" \o Join(" OR ", log_filters) \o ")",
           "Timestamp >= \"" \o Strftime19(PlusSeconds(t0, -SecondsPerMinute)) \o "Z\"",
           "Timestamp < \"" \o Strftime19(PlusSeconds(t1, SecondsPerMinute)) \o "Z\"",
           "jsonPayload.start_time >= \"" \o Strftime19(t0) \o "Z\"",
           "jsonPayload.start_time < \"" \o Strftime19(t1) \o "Z\"" >>
        \o user_filters

\* the local list `filters` of _reader
ReaderFilters(user_filters, logs, t0, t1) ==
    LET timestamp_start == _format_dt(PlusSeconds(t0, -padding))
        timestamp_end == _format_dt(PlusSeconds(t1, padding))
        payload_start == _format_dt(t0)
        payload_end == _format_dt(t1)
        log_filters == [i \in DOMAIN logs |-> "logName=\"" \o logs[i] \o "\""]
        full_log_filter == Join(" OR ", log_filters)
    IN  user_filters \o
        << "resource.type=\"gce_subnetwork\"",
           "(" \o full_log_filter \o ")",
           "Timestamp >= \"" \o timestamp_start \o "\"",
           "Timestamp < \"" \o timestamp_end \o "\"",
           "jsonPayload.start_time >= \"" \o payload_start \o "\"",
           "jsonPayload.start_time < \"" \o payload_end \o "\"" >>

\* kwargs is shared by the page_helper calls: the next project's source
\* starts with the token the last one saved
NextProjectKeepsToken ==
    IF project < Len(project_list)
    THEN /\ project' = project + 1
         /\ page_token' = page_token
         /\ pc' = "list"
         /\ result' = result
    ELSE /\ pc' = "done"
         /\ result' = "StopIteration"
         /\ UNCHANGED <<project, page_token>>

\* The for loop of _reader moves on: the next project's page_helper starts
\* with kwargs['page_token'] = None, or the generator ends.
NextProject ==
    IF project < Len(project_list)
    THEN /\ project' = project + 1
         /\ page_token' = NoToken
         /\ pc' = "list"
         /\ result' = result
    ELSE /\ pc' = "done"
         /\ result' = "StopIteration"
         /\ UNCHANGED <<project, page_token>>

\* only Forbidden is handled
CaughtForbiddenOnly(outcome) == outcome = "Forbidden"

\* every failure of the store that is no rate limit is handled
CaughtAnyApiError(outcome) == outcome \in {"Forbidden", "NotFound", "Other"}

\* except (Forbidden, NotFound): pass
Caught(outcome) == outcome \in {"Forbidden", "NotFound"}

\* the retry gives up after MaxFails sleeps
RetriedUpToCap(outcome) == outcome = "TooManyRequests" /\ sleeps < MaxFails

\* the retry gives up after one failure
RetriedOnce(outcome) == outcome = "TooManyRequests" /\ fails < 1

\* except TooManyRequests
Retried(outcome) == outcome = "TooManyRequests"

\* Forbidden and NotFound are handled around the listing call, inside the
\* retry loop: the project is listed again from the saved token
RaisedInsideLoop(outcome) ==
    IF outcome = "TooManyRequests"
    THEN /\ pc' = "sleep"
         /\ UNCHANGED <<project, page_token, result, err, skipped>>
    ELSE IF outcome \in {"Forbidden", "NotFound"}
    THEN /\ pc' = "list"
         /\ skipped' = skipped \cup {project_list[project]}
         /\ UNCHANGED <<project, page_token, result, err>>
    ELSE /\ pc' = "raised"
         /\ err' = outcome
         /\ result' = "error"
         /\ UNCHANGED <<project, page_token, skipped>>

\* What follows a call of the log store that raised `outcome`.
Raised(outcome) ==
    IF Retried(outcome)
    THEN /\ pc' = "sleep"
         /\ UNCHANGED <<project, page_token, result, err, skipped>>
    ELSE IF Caught(outcome)
    THEN /\ NextProject
         /\ skipped' = skipped \cup {project_list[project]}
         /\ err' = err
    ELSE /\ pc' = "raised"
         /\ err' = outcome
         /\ result' = "error"
         /\ UNCHANGED <<project, page_token, skipped>>

\* iter(reader) makes the generator anew: self.iterator = self._reader()
IterRestarts ==
    /\ pc \notin {"new", "init_raised"}
    /\ pc' = "ready"
    /\ UNCHANGED <<args, env, project_list, log_list, start_time, end_time,
                   filters, bytes_processed, gen_filters, project, page_token,
                   iterator, page, yielded, result, err, drawn, served,
                   skipped, lastCall, lastOutcome, calls, sleeps, fails>>
    /\ UNCHANGED aggVars

\* iter(reader): Reader.__iter__ returns self, the generator stays as it is
__iter__ ==
    /\ pc \notin {"new", "init_raised"}
    /\ UNCHANGED readerVars
    /\ UNCHANGED aggVars

\* next(reader): Reader.__next__, which resumes the generator _reader
ReaderNext ==
    /\ pc \in {"ready", "yielded", "done", "raised"}
    /\ IF pc = "ready"
       THEN /\ gen_filters' = ReaderFilters(filters, log_list, start_time, end_time)
            /\ IF Len(project_list) = 0
               THEN /\ pc' = "done"
                    /\ result' = "StopIteration"
               ELSE /\ pc' = "list"
                    /\ result' = result
            /\ project' = 1
            /\ page_token' = NoToken
       ELSE /\ IF pc = "yielded"
               THEN /\ pc' = IF page # <<>> THEN "entry" ELSE "fetch"
                    /\ result' = result
               ELSE /\ pc' = pc
                    /\ result' = "StopIteration"
            /\ UNCHANGED <<gen_filters, project, page_token>>
    /\ UNCHANGED <<args, env, project_list, log_list, start_time, end_time,
                   filters, bytes_processed, iterator, page, yielded, err,
                   drawn, served, skipped, lastCall, lastOutcome, calls,
                   sleeps, fails>>
    /\ UNCHANGED aggVars

\* a counter of the model, which stays at its cap
Counted(n, cap) == IF n < cap THEN n + 1 ELSE n

\* more listing calls than any read of the model makes while the rate limit
\* fails it at most MaxFails times
CallsCap == Len(Discovered) + MaxFails

\* the store answers every listing call for project p with TooManyRequests
RateLimitedForever(p) == p \in env.rate_limited

\* iterator = logging_client.list_entries(**kwargs)
ListEntries ==
    /\ pc = "list"
    /\ \E outcome \in Outcomes :
        /\ IF RateLimitedForever(project_list[project])
           THEN outcome = "TooManyRequests"
           ELSE outcome = "TooManyRequests" => fails < MaxFails
        /\ lastCall' = [filter_ |-> Join(" AND ", gen_filters),
                        page_size |-> PAGE_SIZE,
                        projects |-> <<project_list[project]>>,
                        page_token |-> page_token]
        /\ lastOutcome' = outcome
        /\ calls' = Counted(calls, CallsCap)
        /\ fails' = IF outcome = "TooManyRequests" THEN Counted(fails, MaxFails) ELSE fails
        /\ IF outcome = "ok"
           THEN /\ iterator' = [project |-> project_list[project],
                                page_token |-> page_token,
                                next_page_token |-> NoToken,
                                page_number |-> 0]
                /\ pc' = "fetch"
                /\ UNCHANGED <<project, page_token, result, err, skipped>>
           ELSE /\ Raised(outcome)
                /\ iterator' = iterator
    /\ UNCHANGED <<args, env, project_list, log_list, start_time, end_time,
                   filters, bytes_processed, gen_filters, page, yielded, drawn,
                   served, sleeps>>
    /\ UNCHANGED aggVars

\* the iterator has a page to ask the store for
HasNextPage(it) == it.page_number = 0 \/ it.next_page_token # NoToken

\* the token the iterator sends with its next request
RequestToken(it) == IF it.page_number = 0 THEN it.page_token ELSE it.next_page_token

\* the page of project p the store returns for a token, and the token of the
\* page after it
PageAt(p, token) ==
    LET k == IF token = NoToken THEN 1 ELSE token
    IN  [entries |-> IF k \in DOMAIN env.store[p] THEN env.store[p][k] ELSE <<>>,
         next_page_token |-> IF k < Len(env.store[p]) THEN k + 1 ELSE NoToken]

\* page_helper keeps the token its listing call was issued with
StaleToken(it) == it.page_token

\* the token page_helper saves when a page has arrived
SavedToken(it) == it.next_page_token

\* for page in iterator.pages: the fetch of the next page, and the
\* assignment to kwargs['page_token'] that follows it
FetchPage ==
    /\ pc = "fetch"
    /\ HasNextPage(iterator)
    /\ \E outcome \in Outcomes :
        /\ outcome = "TooManyRequests" => fails < MaxFails
        /\ lastOutcome' = outcome
        /\ fails' = IF outcome = "TooManyRequests" THEN fails + 1 ELSE fails
        /\ IF outcome = "ok"
           THEN LET got == PageAt(iterator.project, RequestToken(iterator))
                    it == [iterator EXCEPT
                             !.next_page_token = got.next_page_token,
                             !.page_number = @ + 1]
                IN  /\ iterator' = it
                    /\ page_token' = SavedToken(it)
                    /\ page' = got.entries
                    /\ pc' = IF got.entries # <<>> THEN "entry" ELSE "fetch"
                    /\ UNCHANGED <<project, result, err, skipped>>
           ELSE /\ Raised(outcome)
                /\ UNCHANGED <<iterator, page>>
    /\ UNCHANGED <<args, env, project_list, log_list, start_time, end_time,
                   filters, bytes_processed, gen_filters, yielded, drawn,
                   served, lastCall, calls, sleeps>>
    /\ UNCHANGED aggVars

\* iterator.pages is exhausted: break, page_helper returns
EndOfPages ==
    /\ pc = "fetch"
    /\ ~HasNextPage(iterator)
    /\ NextProject
    /\ UNCHANGED <<args, env, project_list, log_list, start_time, end_time,
                   filters, bytes_processed, gen_filters, iterator, page,
                   yielded, err, drawn, served, skipped, lastCall, lastOutcome,
                   calls, sleeps, fails>>
    /\ UNCHANGED aggVars

\* sleep(wait_time), then the while loop calls list_entries again
Sleep ==
    /\ pc = "sleep"
    /\ sleeps' = Counted(sleeps, MaxFails)
    /\ pc' = "list"
    /\ UNCHANGED <<args, env, project_list, log_list, start_time, end_time,
                   filters, bytes_processed, gen_filters, project, page_token,
                   iterator, page, yielded, result, err, drawn, served,
                   skipped, lastCall, lastOutcome, calls, fails>>
    /\ UNCHANGED aggVars

\* the handler of _reader takes every exception: the project is given up
MalformedSkipsProject(error) ==
    /\ NextProject
    /\ skipped' = skipped \cup {project_list[project]}
    /\ UNCHANGED <<yielded, err>>

\* FlowRecord(flow_entry) raised `error`: _reader has no handler for it, so
\* it leaves the generator and reaches the caller of next()
Malformed(error) ==
    /\ pc' = "raised"
    /\ err' = error
    /\ result' = "error"
    /\ UNCHANGED <<yielded, project, page_token, skipped>>

\* the page is handed out from its end
YieldFromEnd(entries) ==
    [entry |-> entries[Len(entries)], rest |-> SubSeq(entries, 1, Len(entries) - 1)]

\* yield from page: the entry it yields next, and what is left of the page
YieldFrom(entries) == [entry |-> Head(entries), rest |-> Tail(entries)]

\* yield from page gives one entry to _reader, which counts its bytes and
\* yields FlowRecord(flow_entry), or lets the exception of FlowRecord out
TakeEntry ==
    /\ pc = "entry"
    /\ LET flow_entry == YieldFrom(page).entry
       IN  /\ page' = YieldFrom(page).rest
           /\ served' = [served EXCEPT ![project_list[project]] = Append(@, flow_entry)]
           /\ drawn' = Append(drawn, flow_entry)
           /\ bytes_processed' = bytes_processed + SizeOf(flow_entry)
           /\ IF FlowRecordError(flow_entry) = ""
              THEN /\ yielded' = Append(yielded, FlowRecord(flow_entry))
                   /\ pc' = "yielded"
                   /\ result' = "record"
                   /\ UNCHANGED <<err, project, page_token, skipped>>
              ELSE Malformed(FlowRecordError(flow_entry))
    /\ UNCHANGED <<args, env, project_list, log_list, start_time, end_time,
                   filters, gen_filters, iterator, lastCall, lastOutcome,
                   calls, sleeps, fails>>
    /\ UNCHANGED aggVars

-----------------------------------------------------------------------------
(* aggregation.py: _FlowStats and aggregated_records. *)

KEY_FIELDS == <<"src_ip", "dest_ip", "src_port", "dest_port", "protocol">>

VALUE_FIELDS == <<"packets_sent", "bytes_sent", "start_time", "end_time">>

\* datetime.max and datetime.min: after and before every time of the model
DateTimeMax == [sec |-> 24 * SecondsPerHour, usec |-> 0]

DateTimeMin == [sec |-> -1, usec |-> 0]

\* a < b on datetimes
Before(a, b) == a.sec < b.sec \/ (a.sec = b.sec /\ a.usec < b.usec)

\* _FlowStats.__init__
NewFlowStats ==
    [start_time |-> DateTimeMax, end_time |-> DateTimeMin,
     packets_sent |-> 0, bytes_sent |-> 0]

\* the times of the latest record replace those of the group
FlowStatsUpdateLastWins(stats, flow_record) ==
    [start_time |-> flow_record.start_time,
     end_time |-> flow_record.end_time,
     packets_sent |-> stats.packets_sent + flow_record.packets_sent,
     bytes_sent |-> stats.bytes_sent + flow_record.bytes_sent]

\* _FlowStats.update
FlowStatsUpdate(stats, flow_record) ==
    [start_time |-> IF Before(flow_record.start_time, stats.start_time)
                    THEN flow_record.start_time ELSE stats.start_time,
     end_time |-> IF Before(stats.end_time, flow_record.end_time)
                  THEN flow_record.end_time ELSE stats.end_time,
     packets_sent |-> stats.packets_sent + flow_record.packets_sent,
     bytes_sent |-> stats.bytes_sent + flow_record.bytes_sent]

\* tuple(getattr(flow_record, attr) for attr in key_fields)
KeyOf(flow_record, fields) == [i \in DOMAIN fields |-> flow_record[fields[i]]]

\* namedtuple('StatRecord', key_fields + VALUE_FIELDS) raises ValueError:
\* a field name occurs twice
StatRecordRaises(fields) ==
    LET names == fields \o VALUE_FIELDS
    IN  \E i, j \in DOMAIN names : i < j /\ names[i] = names[j]

\* StatRecord(**item), item being the key fields zipped with the key and
\* then updated with the statistics
StatRecord(fields, key, stats) ==
    LET names == {fields[i] : i \in DOMAIN fields} \cup DOMAIN stats
    IN  [n \in names |->
            IF n \in DOMAIN stats THEN stats[n]
            ELSE key[CHOOSE i \in DOMAIN fields : fields[i] = n]]

RECURSIVE FoldTable(_, _, _)
\* the loop over all_records run from the table `table`: the groups
\* (flow_table) and their keys in insertion order
FoldTable(records, fields, table) ==
    IF records = <<>> THEN table
    ELSE LET flow_record == Head(records)
             key == KeyOf(flow_record, fields)
             old == IF key \in DOMAIN table.stats THEN table.stats[key]
                    ELSE NewFlowStats
         IN  FoldTable(Tail(records), fields,
                [stats |-> [k \in DOMAIN table.stats \cup {key} |->
                                IF k = key THEN FlowStatsUpdate(old, flow_record)
                                ELSE table.stats[k]],
                 order |-> IF key \in DOMAIN table.stats THEN table.order
                           ELSE Append(table.order, key)])

\* list(aggregated_records(records, fields)), for fields the StatRecord type
\* can be made of
AggregatedRows(records, fields) ==
    LET table == FoldTable(records, fields, [stats |-> <<>>, order |-> <<>>])
    IN  [j \in DOMAIN table.order |->
            StatRecord(fields, table.order[j], table.stats[table.order[j]])]

\* the first next() on the generator: the StatRecord type is made
AggStart ==
    /\ agg_pc = "new"
    /\ agg_pc' = IF StatRecordRaises(key_fields) THEN "raised" ELSE "reading"
    /\ UNCHANGED <<all_records, consumed, key_fields, flow_table, key_order, rows>>
    /\ UNCHANGED readerVars

\* one turn of the loop over all_records: flow_table[key].update(flow_record),
\* the defaultdict making the group when the key is new
AggConsume ==
    /\ agg_pc = "reading"
    /\ all_records # <<>>
    /\ LET flow_record == Head(all_records)
           key == KeyOf(flow_record, key_fields)
           old == IF key \in DOMAIN flow_table THEN flow_table[key] ELSE NewFlowStats
       IN  /\ flow_table' = [k \in DOMAIN flow_table \cup {key} |->
                               IF k = key THEN FlowStatsUpdate(old, flow_record)
                               ELSE flow_table[k]]
           /\ key_order' = IF key \in DOMAIN flow_table THEN key_order
                           ELSE Append(key_order, key)
    /\ all_records' = Tail(all_records)
    /\ consumed' = Append(consumed, Head(all_records))
    /\ UNCHANGED <<key_fields, rows, agg_pc>>
    /\ UNCHANGED readerVars

\* the loop over flow_table starts with input left: rows are emitted as the
\* groups fill
AggExhaustedEarly ==
    /\ agg_pc = "reading"
    /\ consumed # <<>>
    /\ agg_pc' = "emitting"
    /\ UNCHANGED <<all_records, consumed, key_fields, flow_table, key_order, rows>>
    /\ UNCHANGED readerVars

\* all_records is exhausted: the loop over flow_table starts
AggExhausted ==
    /\ agg_pc = "reading"
    /\ all_records = <<>>
    /\ agg_pc' = "emitting"
    /\ UNCHANGED <<all_records, consumed, key_fields, flow_table, key_order, rows>>
    /\ UNCHANGED readerVars

\* yield StatRecord(**item), for the next key of flow_table
AggEmit ==
    /\ agg_pc = "emitting"
    /\ Len(rows) < Len(key_order)
    /\ LET key == key_order[Len(rows) + 1]
       IN  rows' = Append(rows, StatRecord(key_fields, key, flow_table[key]))
    /\ UNCHANGED <<all_records, consumed, key_fields, flow_table, key_order, agg_pc>>
    /\ UNCHANGED readerVars

\* the loop over flow_table is over: the generator ends
AggEnd ==
    /\ agg_pc = "emitting"
    /\ Len(rows) = Len(key_order)
    /\ agg_pc' = "done"
    /\ UNCHANGED <<all_records, consumed, key_fields, flow_table, key_order, rows>>
    /\ UNCHANGED readerVars

-----------------------------------------------------------------------------
(* Initial states and specifications. *)

\* the reader before Reader(...) is called
ReaderNew ==
    /\ pc = "new"
    /\ project_list = <<>>
    /\ log_list = <<>>
    /\ start_time = None
    /\ end_time = None
    /\ filters = <<>>
    /\ bytes_processed = 0
    /\ gen_filters = <<>>
    /\ project = 1
    /\ page_token = NoToken
    /\ iterator = None
    /\ page = <<>>
    /\ yielded = <<>>
    /\ result = ""
    /\ err = ""
    /\ drawn = <<>>
    /\ served = [p \in AllProjects |-> <<>>]
    /\ skipped = {}
    /\ lastCall = None
    /\ lastOutcome = ""
    /\ calls = 0
    /\ sleeps = 0
    /\ fails = 0

\* aggregated_records is not in use
AggIdle ==
    /\ all_records = <<>>
    /\ consumed = <<>>
    /\ key_fields = <<>>
    /\ flow_table = <<>>
    /\ key_order = <<>>
    /\ rows = <<>>
    /\ agg_pc = "idle"

\* the log stores read by two projects: both have the same page lengths, and
\* at most one entry of the store is malformed
Stores ==
    {[p \in AllProjects |-> Pages(p, shape, IF p = bp THEN b ELSE 0)] :
        shape \in Shapes, bp \in {"proj1", "proj2"}, b \in 0..(MaxPages * MaxPageLen)}

\* the log stores read by three projects: each has one page of one entry
SmallStores ==
    {[p \in AllProjects |-> Pages(p, <<1>>, IF p = bp THEN 1 ELSE 0)] :
        bp \in AllProjects}

FixedArgs ==
    [log_name |-> "", start_time |-> SomeTime, end_time |-> LaterTime,
     filters |-> <<>>, collect_multiple_projects |-> TRUE]

\* a read of the discovered projects over a fixed window: two projects with
\* any pages, or three projects with one entry each
Init ==
    /\ args = FixedArgs
    /\ env \in {[rate_limited |-> {}, listing |-> [kind |-> "ok", projects |-> SubSeq(Discovered, 1, 2)],
                 now |-> LaterTime, store |-> st] : st \in Stores}
            \cup
               {[rate_limited |-> {}, listing |-> [kind |-> "ok", projects |-> Discovered],
                 now |-> LaterTime, store |-> st] : st \in SmallStores}
    /\ ReaderNew
    /\ AggIdle

Next ==
    \/ Construct
    \/ __iter__
    \/ ReaderNext
    \/ ListEntries
    \/ FetchPage
    \/ EndOfPages
    \/ Sleep
    \/ TakeEntry

Spec == Init /\ [][Next]_vars

\* the time windows asked for: none, whole seconds, and with microseconds
HalfSecond == 500 * 1000

Windows ==
    {<<None, None>>, <<SomeTime, LaterTime>>, <<SomeTime, None>>,
     <<None, LaterTime>>,
     <<[SomeTime EXCEPT !.usec = HalfSecond], [LaterTime EXCEPT !.usec = HalfSecond]>>}

UserFilters ==
    {<<>>, <<"jsonPayload.reporter=\"SRC\"">>,
     <<"jsonPayload.reporter=\"SRC\"", "jsonPayload.connection.protocol=6">>}

Listings ==
    {[kind |-> "ok", projects |-> SubSeq(Discovered, 1, 2)],
     [kind |-> "GoogleAPIError", projects |-> <<>>],
     [kind |-> "OtherError", projects |-> <<>>]}

\* the clock at construction: datetime.utcnow()
Now == [sec |-> 12 * SecondsPerHour + 7, usec |-> HalfSecond \div 2]

\* any arguments and any project listing, over a store of one entry per project
InitPlan ==
    /\ args \in {[log_name |-> ln, start_time |-> w[1], end_time |-> w[2],
                  filters |-> f, collect_multiple_projects |-> c] :
                    ln \in {"", "my_log"}, w \in Windows, f \in UserFilters,
                    c \in BOOLEAN}
    /\ env \in {[rate_limited |-> {}, listing |-> l, now |-> Now,
                 store |-> [p \in AllProjects |-> Pages(p, <<1>>, 0)]] :
                    l \in Listings}
    /\ ReaderNew
    /\ AggIdle

SpecPlan == InitPlan /\ [][Next]_vars

\* the records aggregated: two sources, three profiles of times and counters
AggEntry(ip, n) ==
    [payload |->
        [connection |-> [src_ip |-> ip, src_port |-> "44",
                         dest_ip |-> "192.0.2.3", protocol |-> "6"],
         bytes_sent |-> ToString(10 * n),
         packets_sent |-> ToString(n),
         start_time |-> Strftime19([sec |-> ClockBase + 10 * n, usec |-> 0]) \o ".5Z",
         end_time |-> Strftime19([sec |-> ClockBase + 15 * n, usec |-> 0]) \o "Z",
         reporter |-> "SRC"],
     log_name |-> "",
     resource |-> None]

AggRecords == {FlowRecord(AggEntry(ip, n)) : ip \in {"192.0.2.2", "198.51.100.75"}, n \in 1..3}

KeyChoices == {KEY_FIELDS, <<"src_ip">>, <<"reporter", "src_ip">>, <<>>, <<"src_ip", "start_time">>}

\* aggregated_records over any short list of records and a choice of keys
InitAgg ==
    /\ all_records \in UNION {[1..n -> AggRecords] : n \in 0..MaxRecords}
    /\ key_fields \in KeyChoices
    /\ consumed = <<>>
    /\ flow_table = <<>>
    /\ key_order = <<>>
    /\ rows = <<>>
    /\ agg_pc = "new"
    /\ args = FixedArgs
    /\ env = [rate_limited |-> {}, listing |-> [kind |-> "ok", projects |-> <<>>], now |-> Now,
              store |-> [p \in AllProjects |-> <<>>]]
    /\ ReaderNew

NextAgg ==
    \/ AggStart
    \/ AggConsume
    \/ AggExhausted
    \/ AggEmit
    \/ AggEnd

SpecAgg == InitAgg /\ [][NextAgg]_vars

\* reads of three projects: one entry each, or two pages of one entry each;
\* the store never rate-limits a listing call more than MaxFails times, or it
\* rate-limits every listing call for one of the projects
LiveEnvs ==
    {[rate_limited |-> rl, listing |-> [kind |-> "ok", projects |-> Discovered],
      now |-> LaterTime, store |-> st] :
        st \in SmallStores \cup {[p \in AllProjects |-> Pages(p, <<1, 1>>, 0)]},
        rl \in {{}} \cup {{Discovered[i]} : i \in DOMAIN Discovered}}

InitLive ==
    /\ args = FixedArgs
    /\ env \in LiveEnvs
    /\ ReaderNew
    /\ AggIdle

\* The consumer keeps calling next(), and every call it or the generator
\* makes (the store, sleep, FlowRecord) returns: a step that can be taken is
\* taken.
SpecLive == InitLive /\ [][Next]_vars /\ WF_vars(Next)

\* the six descriptor attributes and their classes, as __init__ lists them
DescriptorAttrs ==
    << <<"src_instance", InstanceDetails>>, <<"dest_instance", InstanceDetails>>,
       <<"src_vpc", VpcDetails>>, <<"dest_vpc", VpcDetails>>,
       <<"src_location", GeographicDetails>>, <<"dest_location", GeographicDetails>> >>

DescriptorNames == {DescriptorAttrs[i][1] : i \in DOMAIN DescriptorAttrs}

ClassOf(attr) ==
    DescriptorAttrs[CHOOSE i \in DOMAIN DescriptorAttrs : DescriptorAttrs[i][1] = attr][2]

\* the shapes of a descriptor in a payload: whole, whole with an unknown
\* sub-field, no object (None), the key absent, or one sub-field missing
\* (the shape is then the name of that sub-field)
DescriptorShapes(cls) == {"full", "extra", "none", "absent"} \cup cls

DescriptorValue(cls, shape) ==
    IF shape = "none" THEN None
    ELSE IF shape = "extra" THEN [k \in cls \cup {"unknown"} |-> k \o "-1"]
    ELSE [k \in cls \ {shape} |-> k \o "-1"]

ShortStart == "2018-04-03T13:47:37Z"

LongStart == "2018-04-03T13:47:37.301723960Z"

\* an entry every scalar field of which is valid: the connection lacks the
\* keys of `dropped`, the descriptor attr has the given shape and the five
\* others are whole
NormEntry(dropped, attr, shape, start) ==
    LET full == [src_ip |-> "198.51.100.75", src_port |-> "44",
                 dest_ip |-> "192.0.2.2", dest_port |-> "33", protocol |-> "6"]
        scalars == {"connection", "bytes_sent", "packets_sent", "start_time",
                    "end_time", "reporter"}
        keys == (scalars \cup DescriptorNames)
                    \ (IF shape = "absent" THEN {attr} ELSE {})
    IN  [payload |->
            [k \in keys |->
                IF k = "connection" THEN [c \in DOMAIN full \ dropped |-> full[c]]
                ELSE IF k = "bytes_sent" THEN "15"
                ELSE IF k = "packets_sent" THEN "4"
                ELSE IF k = "start_time" THEN start
                ELSE IF k = "end_time" THEN "2018-04-03T13:47:38.401Z"
                ELSE IF k = "reporter" THEN "SRC"
                ELSE DescriptorValue(ClassOf(k), IF k = attr THEN shape ELSE "full")],
         log_name |-> "",
         resource |-> None]

\* entries that differ in their ports and in the fraction of their start time
PortEntries ==
    {NormEntry(d, "src_instance", "full", st) :
        d \in SUBSET {"src_port", "dest_port"}, st \in {ShortStart, LongStart}}

\* the resource of an entry: none, one without labels, one whose labels are
\* None, and one whose labels have each shape of a descriptor but "absent"
ResourceShapes ==
    {None, [type |-> "gcp_subnetwork"], [type |-> "gcp_subnetwork", labels |-> None]}
    \cup {[type |-> "gcp_subnetwork", labels |-> DescriptorValue(ResourceLabels, shape)] :
            shape \in {"full", "extra"} \cup ResourceLabels}

\* entries that differ in their resource
ResourceEntries ==
    {[NormEntry({}, "src_instance", "full", LongStart) EXCEPT !.resource = r] :
        r \in ResourceShapes}

\* entries one descriptor of which has each of the shapes
NormEntries ==
    PortEntries \cup ResourceEntries \cup
    UNION {{NormEntry({}, attr, shape, LongStart) : shape \in DescriptorShapes(ClassOf(attr))} :
            attr \in DescriptorNames}

SecondEntries ==
    PortEntries \cup
    {NormEntry({}, "src_instance", shape, LongStart) : shape \in DescriptorShapes(InstanceDetails)}

\* a read of one page of two entries of the default project
InitNorm ==
    /\ args = [FixedArgs EXCEPT !.collect_multiple_projects = FALSE]
    /\ env \in {[rate_limited |-> {}, listing |-> [kind |-> "ok", projects |-> <<>>], now |-> LaterTime,
                 store |-> [p \in AllProjects |->
                              IF p = DefaultProject THEN << <<e1, e2>> >> ELSE <<>>]] :
                    e1 \in NormEntries, e2 \in SecondEntries}
    /\ ReaderNew
    /\ AggIdle

SpecNorm == InitNorm /\ [][Next]_vars

-----------------------------------------------------------------------------
(* What the claims speak of. *)

IsPrefix(a, b) == Len(a) <= Len(b) /\ a = SubSeq(b, 1, Len(a))

\* the entries of project p in the store, in page order
Stored(p) == Flatten(env.store[p])

\* the records of a list of well-formed entries
Records(entries) == [i \in DOMAIN entries |-> FlowRecord(entries[i])]

\* the project a record of the model comes from
ProjectOf(record) == record.src_instance.project_id

\* the records of project p in the combined stream
YieldedOf(p) == SelectSeq(yielded, LAMBDA r : ProjectOf(r) = p)

\* the position of project p in project_list
PositionOf(p) == CHOOSE i \in DOMAIN project_list : project_list[i] = p

\* the page_helper of the project at position i has returned
Returned(i) ==
    /\ project_list[i] \notin skipped
    /\ i < project \/ pc = "done"

\* the exceptions FlowRecord raises
NormalizerErrors == {"KeyError", "ValueError", "TypeError"}

-----------------------------------------------------------------------------
(* The claims. *)

\* C1: page_helper yields every entry exactly once and in order whatever the
\* rate-limit failures: what it has yielded for a project is always a prefix
\* of the project's pages laid end to end, and all of them once it returned.
C1_ExactlyOnceInOrder ==
    \A i \in DOMAIN project_list :
        LET p == project_list[i]
        IN  /\ IsPrefix(served[p], Stored(p))
            /\ Returned(i) => served[p] = Stored(p)

\* C1 witness: a listing call re-issued with a saved token (a retry after the
\* first page) has delivered the second page, and the project's pages, of
\* full length, are all served.
C1_Witness ==
    /\ iterator # None
    /\ iterator.page_token # NoToken
    /\ iterator.page_number = 1
    /\ fails = MaxFails
    /\ Len(Stored(iterator.project)) = MaxPages * MaxPageLen
    /\ served[iterator.project] = Stored(iterator.project)

\* C2: a Forbidden or NotFound failure of a project's source reaches no
\* caller, the loop moves to the next project (or ends after the last), and
\* at the end of the stream every record of every project that did not fail
\* has been yielded.
C2_FailureIsolation ==
    /\ lastOutcome \in {"Forbidden", "NotFound"} =>
        LET i == PositionOf(lastCall.projects[1])
        IN  /\ err = ""
            /\ result # "error"
            /\ project_list[i] \in skipped
            /\ IF i < Len(project_list)
               THEN pc = "list" /\ project = i + 1
               ELSE pc = "done"
    /\ pc = "done" =>
        \A i \in DOMAIN project_list :
            project_list[i] \notin skipped =>
                YieldedOf(project_list[i]) = Records(Stored(project_list[i]))

\* C2 witness: of three projects the first is Forbidden or NotFound, the
\* stream has ended and holds the records of the two others.
C2_Witness ==
    /\ pc = "done"
    /\ Len(project_list) = 3
    /\ skipped = {project_list[1]}
    /\ Len(YieldedOf(project_list[2])) = 1
    /\ Len(YieldedOf(project_list[3])) = 1

\* C3 (as claimed): the records yielded are only those of the projects whose
\* source did not fail with Forbidden or NotFound.
C3_FailedContributesNothing ==
    \A k \in DOMAIN yielded : ProjectOf(yielded[k]) \notin skipped

\* the pages of the current project fetched so far, told by the saved token
FetchedPages ==
    SubSeq(env.store[project_list[project]], 1,
           IF page_token = NoToken THEN 0 ELSE page_token - 1)

\* C3 (amended): a project whose source fails with Forbidden or NotFound
\* contributes exactly the records of the pages fetched before the failure
\* (none when the failure comes before the first page), and none after it.
C3_FailedContributesFetchedPages ==
    [][\A p \in AllProjects :
        p \in skipped' =>
            IF p \in skipped
            THEN YieldedOf(p)' = YieldedOf(p)
            ELSE /\ p = project_list[project]
                 /\ YieldedOf(p)' = Records(Flatten(FetchedPages))]_vars

\* C3 witness: a project failed after its first page, whose records stay in
\* the stream, and the stream went on to the end.
C3_Witness ==
    /\ pc = "done"
    /\ Len(project_list) = 2
    /\ skipped = {project_list[1]}
    /\ Len(YieldedOf(project_list[1])) = MaxPageLen
    /\ Len(YieldedOf(project_list[2])) = MaxPages * MaxPageLen

\* C4: a rate-limited failure never reaches the caller, whatever the number
\* of failures in a row: each is followed by exactly one sleep and then by a
\* listing call for the same project that carries the saved page token.
C4_RetryUncapped ==
    /\ [](lastOutcome = "TooManyRequests" =>
            /\ err = ""
            /\ result # "error"
            /\ pc \in {"sleep", "list"}
            /\ sleeps = IF pc = "sleep" THEN fails - 1 ELSE fails)
    /\ [][/\ pc = "sleep" =>
               /\ pc' = "list"
               /\ sleeps' = sleeps + 1
               /\ UNCHANGED <<project, page_token>>
          /\ calls' # calls =>
               /\ calls' = calls + 1
               /\ lastCall'.page_token = page_token
               /\ lastCall'.projects = <<project_list[project]>>
          /\ fails' # fails => pc' = "sleep" /\ UNCHANGED <<project, page_token>>]_vars

\* C4 witness: MaxFails failures in a row, of the listing call for a page
\* after the first, and then the call succeeds.
C4_Witness ==
    /\ fails = MaxFails
    /\ sleeps = MaxFails
    /\ calls = MaxFails + 1
    /\ lastOutcome = "ok"
    /\ pc = "fetch"
    /\ lastCall.page_token # NoToken
    /\ project = 1

\* C5: an entry FlowRecord cannot normalize ends the whole query: its
\* exception reaches the caller, and from then on no record is yielded and
\* no entry is drawn, neither from that project nor from a later one.
C5_MalformedAborts ==
    /\ [](/\ err \in NormalizerErrors => pc = "raised"
          /\ drawn # <<>> /\ FlowRecordError(drawn[Len(drawn)]) # "" =>
                /\ pc = "raised"
                /\ err = FlowRecordError(drawn[Len(drawn)])
                /\ Len(yielded) = Len(drawn) - 1)
    /\ [][pc = "raised" =>
            /\ pc' = "raised"
            /\ UNCHANGED <<yielded, drawn, calls, err>>
            /\ result' = "StopIteration"]_vars

\* C5 witness: the query was aborted by a malformed entry with entries left
\* in its page and a project left in the list, and next() was called again.
C5_Witness ==
    /\ pc = "raised"
    /\ err = "KeyError"
    /\ result = "StopIteration"
    /\ page # <<>>
    /\ project < Len(project_list)
    /\ yielded # <<>>

\* C6: a failure of the store that is no rate limit, Forbidden or NotFound
\* reaches the caller as it is: no sleep and no further listing call follows
\* it, for this project or a later one.
C6_OtherPropagates ==
    /\ [](lastOutcome = "Other" => pc = "raised" /\ err = "Other")
    /\ [][lastOutcome = "Other" =>
            UNCHANGED <<pc, err, calls, sleeps, fails, project, yielded, lastCall>>]_vars

\* C6 witness: the failure came while the first of several projects was
\* being read, after records were yielded, and next() was called again.
C6_Witness ==
    /\ lastOutcome = "Other"
    /\ pc = "raised"
    /\ err = "Other"
    /\ result = "StopIteration"
    /\ project < Len(project_list)
    /\ yielded # <<>>

\* the input of aggregated_records
AggInput == consumed \o all_records

RECURSIVE SumOf(_, _)
\* the sum of a field over a list of records
SumOf(records, field) ==
    IF records = <<>> THEN 0
    ELSE Head(records)[field] + SumOf(Tail(records), field)

\* the earliest start_time and the latest end_time of a list of records
Earliest(records) ==
    CHOOSE t \in {records[i].start_time : i \in DOMAIN records} :
        \A i \in DOMAIN records : ~Before(records[i].start_time, t)

Latest(records) ==
    CHOOSE t \in {records[i].end_time : i \in DOMAIN records} :
        \A i \in DOMAIN records : ~Before(t, records[i].end_time)

\* the rows are the fold of the input by key: one row for each key tuple of
\* the input, holding the sums, the minimum and the maximum over the
\* records of that key
FoldedPerKey(input, fields, out) ==
    LET keys == {KeyOf(input[i], fields) : i \in DOMAIN input}
    IN  /\ Len(out) = Cardinality(keys)
        /\ \A k \in keys :
            LET group == SelectSeq(input, LAMBDA r : KeyOf(r, fields) = k)
            IN  \E j \in DOMAIN out :
                    /\ KeyOf(out[j], fields) = k
                    /\ DOMAIN out[j] = {fields[i] : i \in DOMAIN fields}
                                        \cup {VALUE_FIELDS[i] : i \in DOMAIN VALUE_FIELDS}
                    /\ out[j].packets_sent = SumOf(group, "packets_sent")
                    /\ out[j].bytes_sent = SumOf(group, "bytes_sent")
                    /\ out[j].start_time = Earliest(group)
                    /\ out[j].end_time = Latest(group)

\* C7 (as claimed): for every record stream and every key-field list,
\* aggregated_records ends with an output that has exactly one row for each
\* distinct key tuple of the input, with the sums of packets_sent and
\* bytes_sent, the minimum start_time and the maximum end_time over exactly
\* the records of that key.
C7_FoldForEveryKeyList ==
    agg_pc \in {"done", "raised"} =>
        (agg_pc = "done" /\ FoldedPerKey(AggInput, key_fields, rows))

\* C7, for the runs that make an output: the output of aggregated_records,
\* once it has run to its end, has exactly one row for each distinct key
\* tuple of the input, with the sums of packets_sent and bytes_sent, the
\* minimum start_time and the maximum end_time over exactly the records of
\* that key.
C7_FoldPerKey ==
    agg_pc = "done" => FoldedPerKey(AggInput, key_fields, rows)

\* C7 witness: MaxRecords records in two groups were aggregated by the
\* default key, two records of one group differing in their times.
C7_Witness ==
    /\ agg_pc = "done"
    /\ key_fields = KEY_FIELDS
    /\ Len(consumed) = MaxRecords
    /\ Len(rows) = 2
    /\ \E i, j \in DOMAIN consumed :
        /\ i < j
        /\ KeyOf(consumed[i], key_fields) = KeyOf(consumed[j], key_fields)
        /\ Before(consumed[j].start_time, consumed[i].start_time)

\* the text between the quotes of the bound of a filter: what follows the
\* first n characters, less the closing quote
BoundText(filter, n) == SubSeq(filter, n + 1, Len(filter) - 1)

StartsWith(text, prefix) ==
    Len(prefix) <= Len(text) /\ SubSeq(text, 1, Len(prefix)) = prefix

\* the filter expression of test_iteration
TestIterationExpression ==
    "resource.type=\"gce_subnetwork\" AND (logName=\"my_log\") AND "
    \o "Timestamp >= \"2018-04-03T09:50:22Z\" AND "
    \o "Timestamp < \"2018-04-03T10:52:33Z\" AND "
    \o "jsonPayload.start_time >= \"2018-04-03T09:51:22Z\" AND "
    \o "jsonPayload.start_time < \"2018-04-03T10:51:33Z\""

\* the five predicates the Reader makes, in the order claimed, at positions
\* n+1 to n+5 (the two Timestamp bounds and the two payload bounds are each
\* two elements, so n+6 in all)
FixedPredicatesAt(n) ==
    /\ Len(gen_filters) = Len(filters) + 6
    /\ gen_filters[n + 1] = "resource.type=\"gce_subnetwork\""
    /\ gen_filters[n + 2] =
         "(" \o Join(" OR ", [i \in DOMAIN log_list |->
                                "logName=\"" \o log_list[i] \o "\""]) \o ")"
    /\ StartsWith(gen_filters[n + 3], "Timestamp >= \"")
    /\ StartsWith(gen_filters[n + 4], "Timestamp < \"")
    /\ StartsWith(gen_filters[n + 5], "jsonPayload.start_time >= \"")
    /\ StartsWith(gen_filters[n + 6], "jsonPayload.start_time < \"")

\* C8 (as claimed): the filter passed to list_entries is the AND-join of the
\* resource-type predicate, the OR of the logName predicates, the Timestamp
\* bounds, the jsonPayload.start_time bounds and then the user filters.
C8_UserFiltersLast ==
    lastCall # None =>
        /\ lastCall.filter_ = Join(" AND ", gen_filters)
        /\ FixedPredicatesAt(0)
        /\ SubSeq(gen_filters, 7, Len(gen_filters)) = filters

\* C8 (amended): the filter passed to list_entries is the AND-join of the
\* user filters first, in their order, and then the resource-type
\* predicate, the OR of the logName predicates, the Timestamp bounds and the
\* jsonPayload.start_time bounds; with no user filter, one log and the window
\* of test_iteration it is the expression of that test, byte for byte.
C8_UserFiltersFirst ==
    lastCall # None =>
        /\ lastCall.filter_ = Join(" AND ", gen_filters)
        /\ SubSeq(gen_filters, 1, Len(filters)) = filters
        /\ FixedPredicatesAt(Len(filters))
        /\ (filters = <<>> /\ log_list = <<"my_log">>
                /\ start_time = SomeTime /\ end_time = LaterTime)
            => lastCall.filter_ = TestIterationExpression

\* C8 witness: a listing call was made with two user filters and two logs.
C8_Witness ==
    /\ lastCall # None
    /\ Len(filters) = 2
    /\ Len(log_list) = 2
    /\ lastCall.filter_ = Join(" AND ", gen_filters)

\* the timestamp text names the datetime dt: it has no fraction of a second
Names(text, dt) == dt.usec = 0 /\ text = Strftime19(dt) \o "Z"

WholeSecond(dt) == [dt EXCEPT !.usec = 0]

\* the four bounds of the filter name the datetimes lo, hi, from and to
BoundsAre(lo, hi, from, to) ==
    LET n == Len(filters)
    IN  /\ StartsWith(gen_filters[n + 3], "Timestamp >= \"")
        /\ Names(BoundText(gen_filters[n + 3], 14), lo)
        /\ StartsWith(gen_filters[n + 4], "Timestamp < \"")
        /\ Names(BoundText(gen_filters[n + 4], 13), hi)
        /\ StartsWith(gen_filters[n + 5], "jsonPayload.start_time >= \"")
        /\ Names(BoundText(gen_filters[n + 5], 27), from)
        /\ StartsWith(gen_filters[n + 6], "jsonPayload.start_time < \"")
        /\ Names(BoundText(gen_filters[n + 6], 26), to)

\* C9 (as claimed): for the window [T0, T1] of the Reader the filter bounds
\* Timestamp by exactly T0 - 60 s (>=) and T1 + 60 s (<), and
\* jsonPayload.start_time by exactly T0 (>=) and T1 (<).
C9_ExactBounds ==
    lastCall # None =>
        BoundsAre(PlusSeconds(start_time, -60), PlusSeconds(end_time, 60),
                  start_time, end_time)

\* C9 (amended): the filter bounds Timestamp by T0 - 60 s (>=) and T1 + 60 s
\* (<) and jsonPayload.start_time by T0 (>=) and T1 (<), each cut down to the
\* whole second, the microseconds of T0 and T1 being dropped by the format;
\* the payload bounds carry no padding.
C9_WholeSecondBounds ==
    lastCall # None =>
        BoundsAre(WholeSecond(PlusSeconds(start_time, -60)),
                  WholeSecond(PlusSeconds(end_time, 60)),
                  WholeSecond(start_time), WholeSecond(end_time))

\* C9 witness: a listing call was made for a window given with microseconds.
C9_Witness ==
    /\ lastCall # None
    /\ start_time.usec # 0
    /\ end_time.usec # 0
    /\ args.start_time # None

\* the canonical log name of the default project, as test_no_resource_manager_api
\* expects it
DefaultLogName == "projects/yoyodyne-102010/logs/compute.googleapis.com%2Fvpc_flows"

\* C10 (as claimed): when discovery is asked for and the project listing
\* fails, the Reader is constructed, with the default project as its one
\* project and that project's canonical log name as its one log.
C10_FallbackOnAnyFailure ==
    (pc # "new" /\ args.collect_multiple_projects /\ env.listing.kind # "ok") =>
        /\ pc # "init_raised"
        /\ project_list = <<DefaultProject>>
        /\ log_list = <<DefaultLogName>>

\* C10 (amended): when discovery is asked for and the project listing fails
\* with a GoogleAPIError, the Reader is constructed with the default project
\* as its one project; its one log is that project's canonical log name when
\* no log name is given, and the given log name otherwise.
C10_FallbackOnGoogleAPIError ==
    (pc # "new" /\ args.collect_multiple_projects
        /\ env.listing.kind = "GoogleAPIError") =>
        /\ pc # "init_raised"
        /\ project_list = <<DefaultProject>>
        /\ log_list = IF args.log_name = "" THEN <<DefaultLogName>>
                      ELSE <<args.log_name>>

\* C10 witness: a Reader constructed after a failed discovery, no log name
\* being given.
C10_Witness ==
    /\ pc = "ready"
    /\ args.collect_multiple_projects
    /\ env.listing.kind = "GoogleAPIError"
    /\ args.log_name = ""
    /\ log_list = <<DefaultLogName>>


\* the canonical log name of project p, written out
CanonicalLogName(p) ==
    "projects/" \o p \o "/logs/compute.googleapis.com%2Fvpc_flows"

\* C11: a Reader constructed with a log name has exactly that one log,
\* whatever the discovery toggle and the projects resolved; constructed
\* without one it has one canonical log name per project of project_list, in
\* the order of project_list.
C11_LogNameResolution ==
    pc \notin {"new", "init_raised"} =>
        IF args.log_name # ""
        THEN log_list = <<args.log_name>>
        ELSE /\ Len(log_list) = Len(project_list)
             /\ \A i \in DOMAIN project_list :
                    log_list[i] = CanonicalLogName(project_list[i])

\* C11 witness: discovery found two projects and a log name was given.
C11_Witness ==
    /\ pc = "ready"
    /\ args.log_name = "my_log"
    /\ args.collect_multiple_projects
    /\ Len(project_list) = 2
    /\ log_list = <<"my_log">>

\* C11 second case reached: discovery found two projects, no log name given.
C11_DerivedReached ==
    /\ pc = "ready"
    /\ args.log_name = ""
    /\ log_list = <<CanonicalLogName("proj1"), CanonicalLogName("proj2")>>


\* C12: the combined stream is project-major: a record of a project earlier
\* in project_list never follows a record of a later one, and the records of
\* one project are the first entries of its source, in page order and in the
\* order within each page.
C12_ProjectMajorOrder ==
    /\ \A k, l \in DOMAIN yielded :
            k < l => PositionOf(ProjectOf(yielded[k])) <= PositionOf(ProjectOf(yielded[l]))
    /\ \A i \in DOMAIN project_list :
            LET p == project_list[i]
                n == Len(YieldedOf(p))
            IN  /\ n <= Len(Stored(p))
                /\ \A j \in 1..n : FlowRecordError(Stored(p)[j]) = ""
                /\ YieldedOf(p) = Records(SubSeq(Stored(p), 1, n))

\* C12 witness: the stream holds every record of the first project, of two
\* full pages, and records of both pages of the second.
C12_Witness ==
    /\ Len(project_list) = 2
    /\ Len(YieldedOf(project_list[1])) = MaxPages * MaxPageLen
    /\ Len(YieldedOf(project_list[2])) > MaxPageLen
    /\ Len(yielded) > MaxPages * MaxPageLen + MaxPageLen


\* the size estimate of test_multiple_projects: 576 for four entries
EstimatePerEntry == 576 \div 4

\* C13: bytes_processed is 0 when the Reader is constructed, never decreases,
\* and always is the sum of the size estimates of the entries drawn from the
\* sources so far; a rate-limit failure, a sleep or a skipped project does
\* not change it.
C13_ByteCounter ==
    /\ [](/\ pc = "ready" => bytes_processed = 0
          /\ bytes_processed = Len(drawn) * EstimatePerEntry)
    /\ [][/\ bytes_processed' >= bytes_processed
          /\ (fails' # fails \/ sleeps' # sleeps \/ skipped' # skipped
                \/ calls' # calls)
                => bytes_processed' = bytes_processed]_vars

\* C13 witness: the stream ended after rate-limit retries and a skipped
\* project, with the bytes of the entries of the other project counted.
C13_Witness ==
    /\ pc = "done"
    /\ Len(project_list) = 2
    /\ skipped = {project_list[1]}
    /\ fails = MaxFails
    /\ Len(drawn) = MaxPages * MaxPageLen
    /\ bytes_processed = MaxPages * MaxPageLen * EstimatePerEntry


\* C14: aggregated_records emits no row before its input is exhausted: while
\* a row is out no input is left, no record is read once a row is out, and a
\* row is emitted only when the whole input has been read.
C14_NoEarlyEmission ==
    /\ [](rows # <<>> => all_records = <<>>)
    /\ [][/\ consumed' # consumed => rows = <<>> /\ rows' = <<>>
          /\ rows' # rows => all_records = <<>> /\ consumed' = consumed]_vars

\* C14 witness: the first row is out, MaxRecords records of two groups having
\* been read before it.
C14_Witness ==
    /\ agg_pc = "emitting"
    /\ Len(rows) = 1
    /\ Len(consumed) = MaxRecords
    /\ Len(key_order) = 2
    /\ all_records = <<>>


\* the sub-fields each nested descriptor requires
RequiredSubFields ==
    [a \in {"src_instance", "dest_instance", "src_vpc", "dest_vpc",
            "src_location", "dest_location"} |->
        IF a \in {"src_instance", "dest_instance"}
        THEN {"project_id", "vm_name", "region", "zone"}
        ELSE IF a \in {"src_vpc", "dest_vpc"}
        THEN {"project_id", "vpc_name", "subnetwork_name"}
        ELSE {"continent", "country", "region", "city"}]

\* C15: each of the six nested descriptors of a record is the tuple of the
\* required sub-fields of the payload's sub-object when the sub-object has
\* them all (further sub-fields are left out), and None when the key is
\* missing, its value is no object or a required sub-field is missing; the
\* normalization fails for none of these reasons.
C15_AllOrNothing ==
    /\ Len(yielded) = Len(drawn)
    /\ err \notin NormalizerErrors
    /\ \A k \in DOMAIN yielded : \A a \in DOMAIN RequiredSubFields :
            LET p == drawn[k].payload
                req == RequiredSubFields[a]
                r == yielded[k][a]
            IN  IF a \in DOMAIN p /\ req \subseteq DOMAIN p[a]
                THEN DOMAIN r = req /\ \A f \in req : r[f] = p[a][f]
                ELSE r = None

\* C15 witness: a record whose dest_vpc, one sub-field short in the payload,
\* is None while its other descriptors are tuples, followed by a record whose
\* src_instance was made from a sub-object with an unknown sub-field.
C15_Witness ==
    /\ Len(yielded) = 2
    /\ "dest_vpc" \in DOMAIN drawn[1].payload
    /\ DOMAIN drawn[1].payload.dest_vpc = {"project_id", "vpc_name"}
    /\ yielded[1].dest_vpc = None
    /\ yielded[1].src_location # None
    /\ DOMAIN yielded[1].src_location = {"continent", "country", "region", "city"}
    /\ "src_instance" \in DOMAIN drawn[2].payload
    /\ drawn[2].payload.src_instance # None
    /\ "unknown" \in DOMAIN drawn[2].payload.src_instance
    /\ yielded[2].src_instance # None
    /\ DOMAIN yielded[2].src_instance = {"project_id", "vm_name", "region", "zone"}

\* the two records agree on every field of a FlowRecord
AllFieldsEqual(a, b) ==
    /\ a.src_ip = b.src_ip /\ a.src_port = b.src_port
    /\ a.dest_ip = b.dest_ip /\ a.dest_port = b.dest_port
    /\ a.protocol = b.protocol
    /\ a.start_time = b.start_time /\ a.end_time = b.end_time
    /\ a.bytes_sent = b.bytes_sent /\ a.packets_sent = b.packets_sent
    /\ a.rtt_msec = b.rtt_msec /\ a.reporter = b.reporter
    /\ a.src_instance = b.src_instance /\ a.dest_instance = b.dest_instance
    /\ a.src_vpc = b.src_vpc /\ a.dest_vpc = b.dest_vpc
    /\ a.src_location = b.src_location /\ a.dest_location = b.dest_location
    /\ a.resource_labels = b.resource_labels

C16_UnequalReached ==
    /\ Len(yielded) = 2
    /\ yielded[1].src_ip = yielded[2].src_ip
    /\ yielded[1].src_port = yielded[2].src_port
    /\ yielded[1].dest_vpc # yielded[2].dest_vpc
    /\ ~__eq__(yielded[1], yielded[2])

\* the fields FlowRecord requires, the ports apart, are there
ValidButForPorts(entry) ==
    /\ {"connection", "end_time", "bytes_sent", "packets_sent", "reporter"}
            \subseteq DOMAIN entry.payload
    /\ {"src_ip", "dest_ip", "protocol"} \subseteq DOMAIN entry.payload.connection

\* C17: an entry whose connection lacks src_port, dest_port or both, and is
\* valid otherwise, is normalized: the missing port is 0 in the record and a
\* port that is there keeps its value.
C17_AbsentPortsDefault ==
    \A k \in DOMAIN drawn :
        LET c == drawn[k].payload.connection
        IN  (ValidButForPorts(drawn[k])
                /\ ~({"src_port", "dest_port"} \subseteq DOMAIN c)) =>
            /\ k \in DOMAIN yielded
            /\ IF "src_port" \in DOMAIN c
               THEN ToString(yielded[k].src_port) = c.src_port
               ELSE yielded[k].src_port = 0
            /\ IF "dest_port" \in DOMAIN c
               THEN ToString(yielded[k].dest_port) = c.dest_port
               ELSE yielded[k].dest_port = 0

\* C17 witness: a record of an entry without src_port, whose dest_port is
\* kept, and then a record of an entry without either port.
C17_Witness ==
    /\ Len(yielded) = 2
    /\ DOMAIN drawn[1].payload.connection = {"src_ip", "dest_ip", "dest_port", "protocol"}
    /\ yielded[1].src_port = 0
    /\ yielded[1].dest_port = 33
    /\ DOMAIN drawn[2].payload.connection = {"src_ip", "dest_ip", "protocol"}
    /\ yielded[2].src_port = 0
    /\ yielded[2].dest_port = 0


\* the names of a list of fields
NamesOf(fields) == {fields[i] : i \in DOMAIN fields}

\* C18 (as claimed): for every list of FlowRecord attribute names given as
\* key_fields, names of the value fields among them, aggregated_records
\* succeeds and yields one row for each distinct key tuple, with the fields
\* (key_fields..., packets_sent, bytes_sent, start_time, end_time).
C18_AnyAttributeNames ==
    /\ NamesOf(key_fields) \subseteq NamesOf(__slots__) => agg_pc # "raised"
    /\ agg_pc = "done" =>
        /\ Len(rows) = Cardinality({KeyOf(AggInput[i], key_fields) : i \in DOMAIN AggInput})
        /\ \A j \in DOMAIN rows :
            /\ DOMAIN rows[j] = NamesOf(key_fields) \cup NamesOf(VALUE_FIELDS)
            /\ \E i \in DOMAIN AggInput :
                    KeyOf(rows[j], key_fields) = KeyOf(AggInput[i], key_fields)

\* C18: the key list src_ip, start_time, of attribute names, was given, and
\* the call ended in the ValueError of namedtuple with no record read.
C18_Raised ==
    /\ agg_pc = "raised"
    /\ key_fields = <<"src_ip", "start_time">>
    /\ all_records # <<>>
    /\ consumed = <<>>
    /\ rows = <<>>


\* C19: the Reader is read in one pass: iter(reader) never takes it back to
\* its start, what was yielded stays yielded, and once the stream has ended,
\* by exhaustion or by an error that reached the caller, every later next()
\* gives StopIteration: no record, no entry drawn, no listing call.
C19_SinglePass ==
    [][/\ pc' = "ready" => pc \in {"new", "ready"}
       /\ IsPrefix(yielded, yielded')
       /\ pc \in {"done", "raised"} =>
            /\ pc' = pc
            /\ UNCHANGED <<yielded, drawn, calls, lastCall, bytes_processed, project>>
            /\ result' = "StopIteration"]_vars

\* C19 witness: the stream ended by exhaustion of the last of two projects,
\* every record of both being yielded; next() gives StopIteration.
C19_Witness ==
    /\ pc = "done"
    /\ result = "StopIteration"
    /\ err = ""
    /\ skipped = {}
    /\ Len(project_list) = 2
    /\ Len(yielded) = 2 * MaxPages * MaxPageLen

\* C20: every listing call names the one project being read; the first call
\* for a project carries no page token, and a call that carries a token
\* follows a call for the same project and carries a token of that
\* project's pages, also after a project that failed in the middle of its
\* pages.
C20_FreshTokenPerProject ==
    [][calls' # calls =>
        /\ lastCall'.projects = <<project_list[project]>>
        /\ (lastCall = None \/ lastCall.projects # lastCall'.projects)
                => lastCall'.page_token = NoToken
        /\ lastCall'.page_token # NoToken =>
                /\ iterator # None
                /\ iterator.project = project_list[project]
                /\ lastCall'.page_token \in {iterator.page_token, iterator.next_page_token}
                /\ lastCall'.page_token \in 2..Len(env.store[project_list[project]])]_vars

\* C20 witness: the first project failed after its first page, a token being
\* saved, and the second project was listed without a token.
C20_Witness ==
    /\ Len(project_list) = 2
    /\ skipped = {project_list[1]}
    /\ Len(served[project_list[1]]) = MaxPageLen
    /\ Len(Stored(project_list[1])) > MaxPageLen
    /\ lastCall # None
    /\ lastCall.projects = <<project_list[2]>>
    /\ lastCall.page_token = NoToken
    /\ calls = 2


\* the combined stream has ended
Ended == pc \in {"done", "raised"}

\* page_helper is in its retry loop for a project every listing call of
\* which is rate-limited
Storming ==
    /\ pc \in {"list", "sleep"}
    /\ RateLimitedForever(project_list[project])

\* C21: when the rate limit fails only finitely many calls, a consumer that
\* keeps pulling reaches the end of the stream; when every listing call for
\* a project is rate-limited, page_helper, once it reads that project, stays
\* in its retry loop for ever, sleeping again and again, and yields nothing
\* of the project, and the stream does not end.
C21_Termination ==
    /\ (env.rate_limited = {}) => <>Ended
    /\ [](Storming =>
            [](/\ Storming
               /\ served[project_list[project]] = <<>>
               /\ YieldedOf(project_list[project]) = <<>>
               /\ ~Ended))
    /\ [](Storming => <>(pc = "sleep"))
    /\ []((Storming /\ pc = "sleep") => <>(pc = "list"))

\* C21 witness: the second project, reached after the records of the first
\* were yielded, is rate-limited for ever and page_helper has slept MaxFails
\* times over it.
C21_Witness ==
    /\ Storming
    /\ pc = "sleep"
    /\ project = 2
    /\ yielded # <<>>
    /\ sleeps = MaxFails
    /\ calls > MaxFails

\* C21: a read that the rate limit failed MaxFails times has ended by
\* exhaustion.
C21_EndReached ==
    /\ env.rate_limited = {}
    /\ pc = "done"
    /\ fails = MaxFails
    /\ Len(yielded) = 2 * Len(project_list)


\* a next() is under way: the generator runs, the consumer waits
Pulling == pc \in {"list", "fetch", "sleep", "entry"}

\* C22: the query is pulled: a Reader just constructed has issued no listing
\* call; a listing call or a page fetch happens only inside a next(), and a
\* next() starts only from the consumer; a listing call for a project is
\* issued only when every earlier project was read to its end or has
\* failed; a page is fetched only when every entry of the page before was
\* handed to the consumer.
C22_PullBased ==
    /\ [](pc \in {"new", "init_raised", "ready"} =>
            calls = 0 /\ lastCall = None /\ iterator = None /\ drawn = <<>>)
    /\ [][/\ (~Pulling /\ Pulling') => pc \in {"ready", "yielded"}
          /\ (calls' # calls \/ iterator' # iterator \/ drawn' # drawn) => Pulling
          /\ calls' # calls =>
                \A i \in 1..(project - 1) :
                    \/ project_list[i] \in skipped
                    \/ served[project_list[i]] = Stored(project_list[i])
          /\ (iterator # None /\ iterator'.page_number > iterator.page_number) =>
                /\ page = <<>>
                /\ Len(yielded) = Len(drawn)
                /\ \E n \in 0..Len(env.store[iterator.project]) :
                        served[iterator.project] =
                            Flatten(SubSeq(env.store[iterator.project], 1, n))]_vars

\* C22 witness: the second page of the second project has just been fetched,
\* every record before it being with the consumer.
C22_Witness ==
    /\ pc = "entry"
    /\ project = 2
    /\ iterator.page_number = 2
    /\ Len(page) = MaxPageLen
    /\ Len(yielded) = MaxPages * MaxPageLen + MaxPageLen
    /\ Len(drawn) = Len(yielded)


\* C23: the bytes of an entry are counted before it is normalized:
\* bytes_processed always is the summed estimate of the entries drawn; when
\* FlowRecord has raised, the last entry drawn is the malformed one, it is
\* counted, and bytes_processed exceeds the summed estimate of the entries
\* that became records by that one entry; otherwise the two sums agree.
C23_CountedBeforeNormalizing ==
    /\ bytes_processed = Len(drawn) * EstimatePerEntry
    /\ IF err \in NormalizerErrors
       THEN /\ Len(drawn) = Len(yielded) + 1
            /\ FlowRecordError(drawn[Len(drawn)]) = err
            /\ \A k \in DOMAIN yielded : FlowRecordError(drawn[k]) = ""
            /\ bytes_processed - Len(yielded) * EstimatePerEntry = EstimatePerEntry
       ELSE /\ Len(drawn) = Len(yielded)
            /\ bytes_processed = Len(yielded) * EstimatePerEntry

\* C23 witness: the third entry drawn was malformed: two records are out and
\* three entries are counted.
C23_Witness ==
    /\ pc = "raised"
    /\ err = "KeyError"
    /\ Len(yielded) = 2
    /\ Len(drawn) = 3
    /\ bytes_processed = 3 * EstimatePerEntry


\* the elements of a list
SetOf(list) == {list[i] : i \in DOMAIN list}

\* the list reordered by the permutation sigma of its positions
Permuted(list, sigma) == [i \in DOMAIN list |-> list[sigma[i]]]

\* the first position of the key in the input
FirstOccurrence(input, fields, key) ==
    CHOOSE i \in DOMAIN input :
        /\ KeyOf(input[i], fields) = key
        /\ \A h \in 1..(i - 1) : KeyOf(input[h], fields) # key

\* the rows come in the order in which their keys first occur in the input
InFirstOccurrenceOrder(out, input, fields) ==
    \A j, k \in DOMAIN out :
        j < k => FirstOccurrence(input, fields, KeyOf(out[j], fields))
                    < FirstOccurrence(input, fields, KeyOf(out[k], fields))

\* C24: the rows aggregated_records has yielded when it ends are, as a set,
\* the rows it yields for every permutation of its input, and in either
\* case the rows come in the order of the first occurrence of their keys in
\* the input read.
C24_OrderInsensitive ==
    agg_pc = "done" =>
        /\ rows = AggregatedRows(AggInput, key_fields)
        /\ InFirstOccurrenceOrder(rows, AggInput, key_fields)
        /\ \A sigma \in Permutations(DOMAIN AggInput) :
            LET shuffled == Permuted(AggInput, sigma)
                out == AggregatedRows(shuffled, key_fields)
            IN  /\ SetOf(out) = SetOf(rows)
                /\ Len(out) = Len(rows)
                /\ InFirstOccurrenceOrder(out, shuffled, key_fields)

\* C24 witness: three records were aggregated by the default key into two
\* rows, the two records of the first group being separated by the record of
\* the second and the later one of them starting earlier.
C24_Witness ==
    /\ agg_pc = "done"
    /\ key_fields = KEY_FIELDS
    /\ Len(consumed) = 3
    /\ Len(rows) = 2
    /\ KeyOf(consumed[1], key_fields) = KeyOf(consumed[3], key_fields)
    /\ KeyOf(consumed[1], key_fields) # KeyOf(consumed[2], key_fields)
    /\ Before(consumed[3].start_time, consumed[1].start_time)
    /\ rows[1].start_time = consumed[3].start_time


\* the labels a ResourceLabels is made of
LabelNames == {"project_id", "location", "subnetwork_id", "subnetwork_name"}

\* C25: resource_labels is the tuple of the four labels exactly when the
\* entry has a resource with a labels mapping whose keys are exactly
\* project_id, location, subnetwork_id and subnetwork_name; it is None when
\* the resource is missing, the labels are missing or None, a label is
\* missing or a further label is there, and no normalization fails for it.
C25_ResourceLabelsExact ==
    /\ Len(yielded) = Len(drawn)
    /\ \A k \in DOMAIN yielded :
        LET res == drawn[k].resource
            r == yielded[k].resource_labels
            exact == /\ res # None
                     /\ "labels" \in DOMAIN res
                     /\ res.labels # None
                     /\ DOMAIN res.labels = LabelNames
        IN  IF exact
            THEN /\ r # None
                 /\ DOMAIN r = LabelNames
                 /\ \A n \in LabelNames : r[n] = res.labels[n]
            ELSE r = None

\* C25 witness: a record with its four labels, of an entry whose resource
\* has exactly these, followed by a record of an entry without a resource.
C25_Witness ==
    /\ Len(yielded) = 2
    /\ yielded[1].resource_labels # None
    /\ yielded[1].resource_labels.location = "location-1"
    /\ yielded[2].resource_labels = None

\* C25: an entry whose labels have a fifth key gave a record without labels,
\* all its payload descriptors being made.
C25_ExtraReached ==
    /\ yielded # <<>>
    /\ drawn[1].resource # None
    /\ "labels" \in DOMAIN drawn[1].resource
    /\ drawn[1].resource.labels # None
    /\ "unknown" \in DOMAIN drawn[1].resource.labels
    /\ yielded[1].resource_labels = None
    /\ yielded[1].src_instance # None

=============================================================================
